---- MODULE Spec2Model ----
(***************************************************************************)
(* MCPProxy (src/mcp_proxy.py): an aiohttp application that forwards POST  *)
(* /mcp, /chat and /completion to an Ollama upstream through one shared    *)
(* aiohttp.ClientSession and answers GET /health from an upstream probe.   *)
(*                                                                         *)
(* A handler is a coroutine: it is modelled as one action per stretch of   *)
(* code between two awaits, so concurrent requests interleave exactly at   *)
(* the awaits.  Strings that the code takes apart (URLs) are sequences of  *)
(* tokens, header collections are sequences of <<name, value>> items,      *)
(* bodies are sequences of chunks.                                         *)
(***************************************************************************)
EXTENDS Integers, Sequences, FiniteSets, TLC

\* ------------------------------------------------------------------ bounds
\* Concurrent inbound requests of SpecConc.
MaxRequests == 2
\* Connections the session's connector hands out at once (aiohttp's default
\* TCPConnector limit, scaled down).
ConnectorLimit == 1
\* Upstream connect outcomes scripted per request: what the 1st, 2nd, ...
\* attempt of that request would meet.
MaxAttempts == 2
\* Trailing slashes tried on the configured upstream URL.
MaxSlashes == 1

VARIABLES
    session,     \* MCPProxy.session: "none" | "open" | "closed"
    ollama_url,  \* MCPProxy.ollama_url, a token sequence
    req          \* one record per inbound request slot

vars == <<session, ollama_url, req>>

\* ----------------------------------------------------------------- helpers
Range(s) == {s[i] : i \in 1..Len(s)}

RECURSIVE RStrip(_, _)
\* str.rstrip(c)
RStrip(s, c) ==
    IF s # <<>> /\ s[Len(s)] = c THEN RStrip(SubSeq(s, 1, Len(s) - 1), c) ELSE s

RECURSIVE LStrip(_, _)
\* str.lstrip(c)
LStrip(s, c) ==
    IF s # <<>> /\ s[1] = c THEN LStrip(Tail(s), c) ELSE s

\* str.lower() on the header names of the model
Lower(k) ==
    CASE k \in {"Host", "HOST", "host"} -> "host"
      [] k \in {"Connection", "connection"} -> "connection"
      [] k \in {"Accept", "accept"} -> "accept"
      [] k \in {"Set-Cookie", "set-cookie"} -> "set-cookie"
      [] k \in {"Content-Type", "content-type"} -> "content-type"
      [] OTHER -> k

\* {key: value for key, value in items}: a dict, so of several items with
\* the same key (same spelling) the last one stays.
DictOf(items) ==
    {items[j] : j \in {i \in 1..Len(items) :
        \A l \in (i + 1)..Len(items) : items[l][1] # items[i][1]}}

\* {key: value for key, value in request.headers.items()
\*  if key.lower() != 'host'}
ForwardedHeaders(items) == {h \in DictOf(items) : Lower(h[1]) # "host"}

\* {key: value for key, value in response.headers.items()}
ReturnedHeaders(items) == DictOf(items)

\* json.loads on the request bodies of the model
JsonLoads(b) ==
    CASE b = "not json" -> [ok |-> FALSE, type |-> "none", has |-> FALSE, model |-> ""]
      [] b = "[]" -> [ok |-> TRUE, type |-> "list", has |-> FALSE, model |-> ""]
      [] b = "{}" -> [ok |-> TRUE, type |-> "dict", has |-> FALSE, model |-> ""]
      [] b = "{model:''}" -> [ok |-> TRUE, type |-> "dict", has |-> TRUE, model |-> "''"]
      [] b = "{model:null}" -> [ok |-> TRUE, type |-> "dict", has |-> TRUE, model |-> "null"]
      [] OTHER -> [ok |-> TRUE, type |-> "dict", has |-> TRUE, model |-> "llama3"]

\* body.get('model', '')
GetModel(j) == IF j.has THEN j.model ELSE "''"

\* Python truthiness of the model values above
Truthy(v) == v \notin {"''", "null"}

\* ------------------------------------------------------------------- state
Requests == 1..MaxRequests

NoReply == [status |-> 0, headers |-> <<>>, body |-> <<>>]
NoResp == [status |-> 0, body |-> <<>>, headers |-> {}]

Idle ==
    [pc |-> "idle", route |-> "none", body |-> "", hdrs |-> <<>>,
     plan |-> <<>>, attempts |-> <<>>, up |-> NoReply, got |-> <<>>,
     fail |-> "none", resp |-> NoResp]

RawUrls ==
    {base \o [i \in 1..k |-> "/"] :
        base \in {<<"http://ollama">>, <<"http://ollama", "/", "api">>},
        k \in 0..MaxSlashes}

Init ==
    /\ session = "none"
    /\ ollama_url \in {RStrip(u, "/") : u \in RawUrls}
    /\ req = [r \in Requests |-> Idle]


\* ------------------------------------------------------------------ inputs
\* What the clients and the upstream can present: the routes create_app
\* registers, request bodies, inbound header items, the upstream's answer
\* to each connection attempt, and its reply.
Routes == {"mcp", "chat", "completion", "health"}
PostRoutes == {"mcp", "chat", "completion"}
Outcomes == {"ok", "refused", "timeout"}

AllInputs ==
    [routes |-> Routes,
     bodies |-> {"not json", "[]", "{}", "{model:''}", "{model:null}",
                 "{model:'llama3'}"},
     hdrs |-> {<<>>,
               <<<<"Host", "proxy">>, <<"Accept", "json">>>>,
               <<<<"host", "proxy">>, <<"Connection", "close">>,
                 <<"Accept", "json">>>>,
               <<<<"Accept", "json">>, <<"Accept", "text">>>>},
     plans |-> [1..MaxAttempts -> Outcomes],
     statuses |-> {200, 204, 404, 500},
     upHdrs |-> {<<<<"Content-Type", "json">>>>,
                 <<<<"Set-Cookie", "a">>, <<"Connection", "close">>,
                   <<"Set-Cookie", "b">>>>},
     upBodies |-> {<<>>, <<"chunk1", "chunk2">>}]

\* The inputs that decide control flow, for the concurrent specification.
FewInputs ==
    [routes |-> {"mcp", "chat", "health"},
     bodies |-> {"not json", "{model:'llama3'}"},
     hdrs |-> {<<>>},
     plans |-> {[i \in 1..MaxAttempts |-> o] : o \in {"ok", "refused"}},
     statuses |-> {200, 500},
     upHdrs |-> {<<>>},
     upBodies |-> {<<"chunk1">>}]

\* ------------------------------------------------------------- the handlers
\* Variant: connect failures reported as a gateway error.
BadGateway ==
    [status |-> 502, body |-> <<"Bad Gateway">>, headers |-> {}]

\* web.Response(status=500, text="Internal Server Error")
InternalServerError ==
    [status |-> 500, body |-> <<"Internal Server Error">>, headers |-> {}]

\* web.Response(status=503, text="Service Unavailable")
ServiceUnavailable ==
    [status |-> 503, body |-> <<"Service Unavailable">>, headers |-> {}]

\* web.Response(status=400, text="Model name required")
ModelRequired ==
    [status |-> 400, body |-> <<"Model name required">>, headers |-> {}]

\* Variant: a failed connect is tried once more before giving up.
FailedWithRetry(q, kind) ==
    IF kind = "connect" /\ Len(q.attempts) < 2
    THEN [q EXCEPT !.pc = "send"]
    ELSE [q EXCEPT !.pc = "done", !.fail = kind,
                   !.resp = IF q.route = "health" THEN ServiceUnavailable
                            ELSE InternalServerError]

\* Variant: no except clause, the exception leaves the handler and the
\* caller gets no response from it.
FailedUncaught(q, kind) ==
    [q EXCEPT !.pc = "crashed", !.fail = kind]

\* The except Exception clauses: every handler answers its own caller.
Failed(q, kind) ==
    [q EXCEPT !.pc = "done", !.fail = kind,
              !.resp = IF q.route = "health" THEN ServiceUnavailable
                       ELSE InternalServerError]

\* Variant: every route forwarded to the endpoint of its own name.
EndpointByName(route) == <<route>>

\* The endpoint each handler passes to forward_request.
EndpointOf(route) ==
    CASE route = "mcp" -> <<"generate">>
      [] route = "chat" -> <<"chat">>
      [] route = "completion" -> <<"generate">>

\* f"{self.ollama_url}/{endpoint.lstrip('/')}"
TargetUrl(endpoint) == ollama_url \o <<"/">> \o LStrip(endpoint, "/")

\* f"{self.ollama_url}/health"
HealthUrl == ollama_url \o <<"/", "health">>

\* Variant: upstream server errors rewritten to the proxy's own 500.
RelayRewritten(up, content) ==
    IF up.status >= 500 THEN InternalServerError
    ELSE [status |-> up.status, body |-> content,
          headers |-> ReturnedHeaders(up.headers)]

\* web.Response(body=content, status=response.status, headers={...})
RelayResponse(up, content) ==
    [status |-> up.status, body |-> content,
     headers |-> ReturnedHeaders(up.headers)]

\* Variant: any 2xx probe status counts as healthy.
HealthResponseAny2xx(status) ==
    IF status >= 200 /\ status < 300
    THEN [status |-> 200, body |-> <<"OK">>, headers |-> {}]
    ELSE ServiceUnavailable

\* handle_health_check's answer to a probe that returned `status`.
HealthResponse(status) ==
    IF status = 200
    THEN [status |-> 200, body |-> <<"OK">>, headers |-> {}]
    ELSE ServiceUnavailable

\* Requests inside self.session.post(...) or self.session.get(...): each
\* holds one of the connector's connections until it leaves the async with.
Held == Cardinality({r \in Requests : req[r].pc \in {"sent", "recv"}})

\* Variant: a connector without a limit.
PoolNeverFull == FALSE

\* The connector has no free connection.
PoolFull == Held >= ConnectorLimit

\* The request the handler puts on the wire.
Outbound(q) ==
    IF q.route = "health"
    THEN [method |-> "GET", url |-> HealthUrl, headers |-> {}, data |-> ""]
    ELSE [method |-> "POST", url |-> TargetUrl(EndpointOf(q.route)),
          headers |-> ForwardedHeaders(q.hdrs), data |-> q.body]

\* app startup: start_session
StartSession ==
    /\ session = "none"
    /\ session' = "open"
    /\ UNCHANGED <<ollama_url, req>>

\* app cleanup: stop_session
StopSession ==
    /\ session # "none"
    /\ session' = "closed"
    /\ UNCHANGED <<ollama_url, req>>

\* A request reaches its handler.
Arrive(r, I) ==
    /\ req[r].pc = "idle"
    /\ \E route \in I.routes :
         IF route = "health"
         THEN req' = [req EXCEPT ![r] = [Idle EXCEPT !.pc = "send", !.route = route]]
         ELSE \E b \in I.bodies, h \in I.hdrs :
                req' = [req EXCEPT ![r] =
                    [Idle EXCEPT !.pc = IF route = "mcp" THEN "json" ELSE "read",
                                 !.route = route, !.body = b, !.hdrs = h]]
    /\ UNCHANGED <<session, ollama_url>>

\* handle_mcp_request up to the call of forward_request: request.json(), the
\* model check.  The body it read stays cached in the request, so the
\* request.read() of forward_request that follows cannot fail or suspend.
McpJson(r) ==
    LET q == req[r]
        j == JsonLoads(q.body)
    IN /\ q.pc = "json"
       /\ \/ req' = [req EXCEPT ![r] = Failed(q, "read")]
          \/ req' = [req EXCEPT ![r] =
                IF ~j.ok \/ j.type # "dict" THEN Failed(q, "json")
                ELSE IF ~Truthy(GetModel(j))
                THEN [q EXCEPT !.pc = "done", !.resp = ModelRequired]
                ELSE [q EXCEPT !.pc = "send"]]
       /\ UNCHANGED <<session, ollama_url>>

\* forward_request: body = await request.read()
ReadBody(r) ==
    LET q == req[r]
    IN /\ q.pc = "read"
       /\ \/ req' = [req EXCEPT ![r] = Failed(q, "read")]
          \/ req' = [req EXCEPT ![r] = [q EXCEPT !.pc = "send"]]
       /\ UNCHANGED <<session, ollama_url>>

\* One connection attempt on a free connection: the upstream answers as the
\* request's script says; on "ok" the request is on the wire and the
\* connection stays taken.
Connect(r, q, I) ==
    \E plan \in (IF q.plan = <<>> THEN I.plans ELSE {q.plan}) :
      LET n == Len(q.attempts) + 1
          sent == [q EXCEPT !.plan = plan,
                            !.attempts = Append(@, Outbound(q))]
      IN req' = [req EXCEPT ![r] =
            IF plan[n] # "ok" THEN Failed(sent, "connect")
            ELSE [sent EXCEPT !.pc = "sent"]]

\* self.session.post(...) / self.session.get(...): without a usable session
\* the call raises; with every connection taken the request waits.
Send(r, I) ==
    LET q == req[r]
    IN /\ q.pc = "send"
       /\ IF session # "open"
          THEN req' = [req EXCEPT ![r] = Failed(q, "session")]
          ELSE IF PoolFull
          THEN req' = [req EXCEPT ![r] = [q EXCEPT !.pc = "wait"]]
          ELSE Connect(r, q, I)
       /\ UNCHANGED <<session, ollama_url>>

\* A waiting request gets the connection another one gave back.
Acquire(r, I) ==
    LET q == req[r]
    IN /\ q.pc = "wait"
       /\ ~PoolFull
       /\ Connect(r, q, I)
       /\ UNCHANGED <<session, ollama_url>>

\* The session's total timeout ends the wait: asyncio.TimeoutError.
WaitTimeout(r) ==
    LET q == req[r]
    IN /\ q.pc = "wait"
       /\ req' = [req EXCEPT ![r] = Failed(q, "pool")]
       /\ UNCHANGED <<session, ollama_url>>

\* The upstream's status line and headers arrive, or the connection breaks
\* before they do.  handle_health_check answers from the status at once;
\* forward_request goes on to read the body.
Reply(r, I) ==
    LET q == req[r]
    IN /\ q.pc = "sent"
       /\ \/ req' = [req EXCEPT ![r] = Failed(q, "disconnected")]
          \/ /\ q.route = "health"
             /\ \E s \in I.statuses :
                  req' = [req EXCEPT ![r] =
                      [q EXCEPT !.pc = "done",
                                !.up = [NoReply EXCEPT !.status = s],
                                !.resp = HealthResponse(s)]]
          \/ /\ q.route # "health"
             /\ \E s \in I.statuses, h \in I.upHdrs, b \in I.upBodies :
                  req' = [req EXCEPT ![r] =
                      [q EXCEPT !.pc = "recv",
                                !.up = [status |-> s, headers |-> h, body |-> b]]]
       /\ UNCHANGED <<session, ollama_url>>

\* Variant: whatever arrived is relayed with the upstream's status.
AfterReadPartial(q, got) ==
    [q EXCEPT !.pc = "done", !.got = got, !.resp = RelayResponse(q.up, got)]

\* The request after content = await response.read(): `got` is what arrived,
\* the whole body or, when the upstream failed on the way, a proper prefix.
AfterRead(q, got) ==
    IF got = q.up.body
    THEN [q EXCEPT !.pc = "done", !.got = got, !.resp = RelayResponse(q.up, got)]
    ELSE Failed([q EXCEPT !.got = got], "payload")

Recv(r) ==
    LET q == req[r]
    IN /\ q.pc = "recv"
       /\ \E n \in 0..Len(q.up.body) :
            req' = [req EXCEPT ![r] = AfterRead(q, SubSeq(q.up.body, 1, n))]
       /\ UNCHANGED <<session, ollama_url>>

\* The response goes to the caller; the slot takes the next request.
Deliver(r) ==
    /\ req[r].pc = "done"
    /\ req' = [req EXCEPT ![r] = Idle]
    /\ UNCHANGED <<session, ollama_url>>

\* --------------------------------------------------------- specifications
\* One request at a time, every input.
Next ==
    \/ StartSession
    \/ StopSession
    \/ Arrive(1, AllInputs)
    \/ McpJson(1)
    \/ ReadBody(1)
    \/ Send(1, AllInputs)
    \/ Reply(1, AllInputs)
    \/ Recv(1)
    \/ Deliver(1)

Spec == Init /\ [][Next]_vars

\* MaxRequests requests interleaved at their awaits, sharing the session.
NextConc ==
    \/ StartSession
    \/ StopSession
    \/ \E r \in Requests :
         \/ Arrive(r, FewInputs)
         \/ McpJson(r)
         \/ ReadBody(r)
         \/ Send(r, FewInputs)
         \/ Acquire(r, FewInputs)
         \/ WaitTimeout(r)
         \/ Reply(r, FewInputs)
         \/ Recv(r)
         \/ Deliver(r)

SpecConc == Init /\ [][NextConc]_vars


\* ------------------------------------------------------------- properties
\* A JSON object body without a model identifier, or with an empty one.
MissingModel(b) ==
    LET j == JsonLoads(b)
    IN j.ok /\ j.type = "dict" /\ (~j.has \/ j.model = "''")

\* The request got an upstream reply whose body arrived whole / cut short.
AnsweredWhole(q) == q.pc = "done" /\ q.up.status # 0 /\ q.got = q.up.body
AnsweredCut(q) == q.pc = "done" /\ q.up.status # 0 /\ q.got # q.up.body

\* The first connection attempt of the request failed.
FirstConnectFailed(q) ==
    q.pc = "done" /\ q.plan # <<>> /\ q.plan[1] # "ok"

\* C1: every POST to /chat, /completion or /mcp whose JSON body has no model
\* identifier or an empty one is answered 400, and nothing is ever sent to
\* the upstream for it.
C1_MissingModelRejected ==
    \A r \in Requests :
      LET q == req[r]
      IN (q.route \in PostRoutes /\ MissingModel(q.body) /\ q.fail = "none")
         => /\ q.attempts = <<>>
            /\ q.pc = "done" => q.resp.status = 400

\* C2: a forwarded request whose upstream answers completely gets back the
\* upstream's status code and body, whatever the status.
C2_RelayVerbatim ==
    \A r \in Requests :
      LET q == req[r]
      IN (q.route \in PostRoutes /\ AnsweredWhole(q))
         => /\ q.resp.status = q.up.status
            /\ q.resp.body = q.up.body

C2_Witness ==
    \E r \in Requests :
      LET q == req[r]
      IN /\ q.route \in PostRoutes /\ AnsweredWhole(q)
         /\ q.up.status = 500 /\ q.up.body # <<>>
         /\ q.resp.status = 500 /\ q.resp.body = q.up.body

\* C3 as stated: a first connect failure followed by an attempt that would
\* succeed gives the caller the upstream's response after exactly two
\* attempts.
C3_RetriedOnce ==
    \A r \in Requests :
      LET q == req[r]
      IN (q.route \in PostRoutes /\ FirstConnectFailed(q) /\ q.plan[2] = "ok")
         => Len(q.attempts) = 2 /\ q.fail = "none"

\* C3 as amended: a first connect failure ends the request with the 500
\* Internal Server Error response after exactly one attempt, also when a
\* next attempt would succeed.
C3_NoRetry ==
    \A r \in Requests :
      LET q == req[r]
      IN (q.route \in PostRoutes /\ FirstConnectFailed(q) /\ q.plan[2] = "ok")
         => Len(q.attempts) = 1 /\ q.resp = InternalServerError

C3_Witness ==
    \E r \in Requests :
      LET q == req[r]
      IN /\ q.route \in PostRoutes /\ FirstConnectFailed(q)
         /\ q.plan[1] = "refused" /\ q.plan[2] = "ok"
         /\ Len(q.attempts) = 1 /\ q.resp.status = 500

\* C4 as stated: when two consecutive connection attempts of a request fail
\* the caller gets a 502 and at most two attempts are made.
C4_BadGatewayAfterTwo ==
    \A r \in Requests :
      LET q == req[r]
      IN (q.route \in PostRoutes /\ FirstConnectFailed(q) /\ q.plan[2] # "ok")
         => q.resp.status = 502 /\ Len(q.attempts) <= 2

\* C4 as amended: when the upstream cannot be connected to (a second attempt
\* would fail as well) the caller gets the 500 Internal Server Error
\* response, and never more than one attempt is made.
C4_ServerErrorAfterOne ==
    \A r \in Requests :
      LET q == req[r]
      IN /\ Len(q.attempts) <= 1
         /\ (q.route \in PostRoutes /\ FirstConnectFailed(q) /\ q.plan[2] # "ok")
            => q.resp.status = 500 /\ q.fail = "connect"

C4_Witness ==
    \E r \in Requests :
      LET q == req[r]
      IN /\ q.route \in PostRoutes /\ FirstConnectFailed(q)
         /\ q.plan[1] = "refused" /\ q.plan[2] = "timeout"
         /\ q.resp.status = 500 /\ Len(q.attempts) = 1

\* C5: GET /health answers 200 "OK" exactly when the probe came back with
\* status 200, and 503 in every other case; no other status.
C5_HealthStatus ==
    \A r \in Requests :
      LET q == req[r]
      IN (q.route = "health" /\ q.pc = "done")
         => /\ q.resp.status \in {200, 503}
            /\ (q.resp.status = 200 /\ q.resp.body = <<"OK">>)
                 <=> (q.fail = "none" /\ q.up.status = 200)
            /\ q.resp.status = 503
                 <=> (q.fail # "none" \/ q.up.status # 200)

C5_Witness ==
    \E r \in Requests :
      LET q == req[r]
      IN /\ q.route = "health" /\ q.pc = "done"
         /\ q.fail = "none" /\ q.up.status = 200
         /\ q.resp.status = 200

C7_FailureIsolated ==
    /\ [](\A r \in Requests :
            LET q == req[r]
            IN /\ q.pc # "crashed"
               /\ q.fail # "none"
                    => q.pc = "done" /\ q.resp.status \in {500, 503})
    /\ [][\A r \in Requests :
            (req[r].fail = "none" /\ req'[r].fail # "none")
            => /\ session' = session
               /\ \A o \in Requests \ {r} : req'[o] = req[o]]_vars

C7_Witness ==
    \E r, o \in Requests :
      /\ r # o
      /\ req[r].fail = "payload" /\ req[r].resp.status = 500
      /\ req[o].pc = "done" /\ req[o].fail = "none"
      /\ req[o].up.status = 200 /\ req[o].resp.status = 200

\* C8: when the upstream fails after its status and headers arrived, the
\* caller does not get the upstream's success status with the part of the
\* body that arrived, and the request is not sent again.
C8_NoTruncatedSuccess ==
    \A r \in Requests :
      LET q == req[r]
      IN (q.route \in PostRoutes /\ AnsweredCut(q))
         => /\ q.up.status \in 200..299
                 => ~(q.resp.status = q.up.status /\ q.resp.body = q.got)
            /\ Len(q.attempts) = 1

C8_Witness ==
    \E r \in Requests :
      LET q == req[r]
      IN /\ q.route \in PostRoutes /\ AnsweredCut(q)
         /\ q.up.status = 200 /\ q.got # <<>>
         /\ q.resp.status = 500

\* Header names that belong to one hop.
TransportHeaders == {"host", "connection"}

EndToEnd(items) == {h \in Range(items) : Lower(h[1]) \notin TransportHeaders}

\* C9: the upstream gets exactly the inbound headers minus host and
\* connection (any spelling), the caller gets exactly the upstream's
\* response headers minus those, every other header unchanged.
C9_TransportHeadersDropped ==
    \A r \in Requests :
      LET q == req[r]
      IN q.route \in PostRoutes
         => /\ \A i \in 1..Len(q.attempts) :
                 q.attempts[i].headers = EndToEnd(q.hdrs)
            /\ AnsweredWhole(q) => q.resp.headers = EndToEnd(q.up.headers)

\* C10: a forwarded request goes to one upstream path fixed by its route,
\* /chat to chat, /completion and /mcp to generate (/mcp only with a model),
\* whatever the body, and at most one POST is made per request.
C10_FixedUpstreamPath ==
    \A r \in Requests :
      LET q == req[r]
          path == IF q.route = "chat" THEN "chat" ELSE "generate"
      IN q.route \in PostRoutes
         => /\ Len(q.attempts) <= 1
            /\ \A i \in 1..Len(q.attempts) :
                 /\ q.attempts[i].method = "POST"
                 /\ q.attempts[i].url = ollama_url \o <<"/", path>>
            /\ (q.route = "mcp" /\ q.attempts # <<>>)
                 => Truthy(GetModel(JsonLoads(q.body)))

C10_Witness ==
    \E r \in Requests :
      LET q == req[r]
      IN /\ q.route = "mcp" /\ Len(q.attempts) = 1
         /\ q.attempts[1].url = ollama_url \o <<"/", "generate">>
         /\ Len(ollama_url) > 1

====
